---------------------------- MODULE Spec2Model ----------------------------
(***************************************************************************)
(* Eclipse finder: the location parser (location_resolver.py), its alias   *)
(* and postal tables, and the visibility matcher (eclipse_matcher.py).     *)
(* Python str values are TLA+ strings; a character is a string of length   *)
(* one.  Optional[str] is <<>> for None and <<s>> for the string s.        *)
(***************************************************************************)
EXTENDS Integers, Sequences, FiniteSets, TLC

(***************************************************************************)
(* Optional values and Python truthiness                                   *)
(***************************************************************************)
None == <<>>

Some(s) == <<s>>

\* bool(x) of an Optional[str]: None and "" are falsy.
Truthy(o) == o # None /\ o[1] # ""

(***************************************************************************)
(* Characters and the str / re primitives the code uses                    *)
(***************************************************************************)
\* The characters str.strip(), str.split() and the regex class \s treat as
\* white space (those that occur in the inputs of this model).
Whitespace == {" ", "\t", "\n"}

UpperToLower ==
    [A |-> "a", B |-> "b", C |-> "c", D |-> "d", E |-> "e", F |-> "f",
     G |-> "g", H |-> "h", I |-> "i", J |-> "j", K |-> "k", L |-> "l",
     M |-> "m", N |-> "n", O |-> "o", P |-> "p", Q |-> "q", R |-> "r",
     S |-> "s", T |-> "t", U |-> "u", V |-> "v", W |-> "w", X |-> "x",
     Y |-> "y", Z |-> "z"]

LowerToUpper ==
    [a |-> "A", b |-> "B", c |-> "C", d |-> "D", e |-> "E", f |-> "F",
     g |-> "G", h |-> "H", i |-> "I", j |-> "J", k |-> "K", l |-> "L",
     m |-> "M", n |-> "N", o |-> "O", p |-> "P", q |-> "Q", r |-> "R",
     s |-> "S", t |-> "T", u |-> "U", v |-> "V", w |-> "W", x |-> "X",
     y |-> "Y", z |-> "Z"]

DigitValue ==
    [c \in {"0", "1", "2", "3", "4", "5", "6", "7", "8", "9"} |->
        CASE c = "0" -> 0 [] c = "1" -> 1 [] c = "2" -> 2 [] c = "3" -> 3
          [] c = "4" -> 4 [] c = "5" -> 5 [] c = "6" -> 6 [] c = "7" -> 7
          [] c = "8" -> 8 [] c = "9" -> 9]

\* regex \d
IsDigit(c) == c \in DOMAIN DigitValue

\* regex [A-Za-z]
IsAlpha(c) == c \in DOMAIN UpperToLower \/ c \in DOMAIN LowerToUpper

\* regex \w (for \b): letters, digits and the underscore
IsWordChar(c) == IsAlpha(c) \/ IsDigit(c) \/ c = "_"

At(s, i) == SubSeq(s, i, i)

\* str.lower()
RECURSIVE Lower(_)
Lower(s) ==
    IF s = "" THEN ""
    ELSE (IF Head(s) \in DOMAIN UpperToLower THEN UpperToLower[Head(s)] ELSE Head(s))
         \o Lower(Tail(s))

\* str.upper()
RECURSIVE Upper(_)
Upper(s) ==
    IF s = "" THEN ""
    ELSE (IF Head(s) \in DOMAIN LowerToUpper THEN LowerToUpper[Head(s)] ELSE Head(s))
         \o Upper(Tail(s))

\* str.lstrip(chars)
RECURSIVE LStrip(_, _)
LStrip(s, chars) ==
    IF s # "" /\ Head(s) \in chars THEN LStrip(Tail(s), chars) ELSE s

\* str.rstrip(chars)
RECURSIVE RStrip(_, _)
RStrip(s, chars) ==
    IF s # "" /\ At(s, Len(s)) \in chars
    THEN RStrip(SubSeq(s, 1, Len(s) - 1), chars)
    ELSE s

\* str.strip(chars)
StripChars(s, chars) == RStrip(LStrip(s, chars), chars)

\* str.strip()
Strip(s) == StripChars(s, Whitespace)

\* str.split(sep) for a one-character sep: never an empty list.
RECURSIVE Split(_, _)
Split(s, sep) ==
    IF \E i \in 1..Len(s) : At(s, i) = sep
    THEN LET i == CHOOSE j \in 1..Len(s) :
                    At(s, j) = sep /\ \A k \in 1..(j - 1) : At(s, k) # sep
         IN  <<SubSeq(s, 1, i - 1)>> \o Split(SubSeq(s, i + 1, Len(s)), sep)
    ELSE <<s>>

\* str.split(): the maximal runs of non-white-space characters.
RECURSIVE Words(_)
Words(s) ==
    LET t == LStrip(s, Whitespace)
    IN  IF t = "" THEN <<>>
        ELSE IF \E i \in 1..Len(t) : At(t, i) \in Whitespace
        THEN LET i == CHOOSE j \in 1..Len(t) :
                        At(t, j) \in Whitespace
                        /\ \A k \in 1..(j - 1) : At(t, k) \notin Whitespace
             IN  <<SubSeq(t, 1, i - 1)>> \o Words(SubSeq(t, i + 1, Len(t)))
        ELSE <<t>>

\* re.sub(r"\s+", " ", s)
RECURSIVE CollapseWhitespace(_)
CollapseWhitespace(s) ==
    IF s = "" THEN ""
    ELSE IF Head(s) \in Whitespace
    THEN " " \o CollapseWhitespace(LStrip(s, Whitespace))
    ELSE Head(s) \o CollapseWhitespace(Tail(s))

\* re.sub(r"\D", "", s)
RECURSIVE DigitsOnly(_)
DigitsOnly(s) ==
    IF s = "" THEN ""
    ELSE (IF IsDigit(Head(s)) THEN Head(s) ELSE "") \o DigitsOnly(Tail(s))

\* int(s) of a string of decimal digits
RECURSIVE ToInt(_)
ToInt(s) ==
    IF s = "" THEN 0
    ELSE 10 * ToInt(SubSeq(s, 1, Len(s) - 1)) + DigitValue[At(s, Len(s))]

\* A dict built by assigning the pairs <<key, value>> in order: the last
\* assignment to a key is the one that stays.
DictOf(pairs) ==
    [k \in {pairs[i][1] : i \in DOMAIN pairs} |->
        pairs[CHOOSE i \in DOMAIN pairs :
                 pairs[i][1] = k /\ \A j \in DOMAIN pairs : pairs[j][1] = k => j <= i][2]]

\* The elements of a sequence
Range(seq) == {seq[i] : i \in DOMAIN seq}

(***************************************************************************)
(* Canonical country list and aliases                                      *)
(***************************************************************************)

\* The dict literal, as its <<alias, canonical name>> items in order.
_COUNTRY_CANONICAL == <<
    <<"united states", "United States">>,
    <<"united states of america", "United States">>,
    <<"usa", "United States">>,
    <<"us", "United States">>,
    <<"canada", "Canada">>,
    <<"mexico", "Mexico">>,
    <<"spain", "Spain">>,
    <<"france", "France">>,
    <<"united kingdom", "United Kingdom">>,
    <<"uk", "United Kingdom">>,
    <<"great britain", "United Kingdom">>,
    <<"ireland", "Ireland">>,
    <<"portugal", "Portugal">>,
    <<"brazil", "Brazil">>,
    <<"argentina", "Argentina">>,
    <<"chile", "Chile">>,
    <<"peru", "Peru">>,
    <<"greenland", "Greenland">>,
    <<"iceland", "Iceland">>,
    <<"morocco", "Morocco">>,
    <<"algeria", "Algeria">>,
    <<"libya", "Libya">>,
    <<"egypt", "Egypt">>,
    <<"saudi arabia", "Saudi Arabia">>,
    <<"uae", "United Arab Emirates">>,
    <<"united arab emirates", "United Arab Emirates">>,
    <<"oman", "Oman">>,
    <<"yemen", "Yemen">>,
    <<"india", "India">>,
    <<"bangladesh", "Bangladesh">>,
    <<"china", "China">>,
    <<"japan", "Japan">>,
    <<"south korea", "South Korea">>,
    <<"korea", "South Korea">>,
    <<"pakistan", "Pakistan">>,
    <<"nigeria", "Nigeria">>,
    <<"kenya", "Kenya">>,
    <<"south africa", "South Africa">>,
    <<"germany", "Germany">>,
    <<"italy", "Italy">>,
    <<"tunisia", "Tunisia">>,
    <<"new zealand", "New Zealand">>,
    <<"australia", "Australia">> >>

\* Countries grouped into broader geographic tokens: <<country, labels>>.
_COUNTRY_MACROREGIONS == <<
    <<"United States", {"north america"}>>,
    <<"Canada", {"north america"}>>,
    <<"Mexico", {"north america"}>>,
    <<"Greenland", {"arctic", "north america"}>>,
    <<"Iceland", {"europe", "north atlantic"}>>,
    <<"Spain", {"europe"}>>,
    <<"France", {"europe"}>>,
    <<"United Kingdom", {"europe"}>>,
    <<"Ireland", {"europe"}>>,
    <<"Portugal", {"europe"}>>,
    <<"Germany", {"europe"}>>,
    <<"Italy", {"europe"}>>,
    <<"Morocco", {"africa", "north africa"}>>,
    <<"Algeria", {"africa", "north africa"}>>,
    <<"Libya", {"africa", "north africa"}>>,
    <<"Tunisia", {"africa", "north africa"}>>,
    <<"Egypt", {"africa", "middle east", "north africa"}>>,
    <<"Saudi Arabia", {"asia", "middle east"}>>,
    <<"United Arab Emirates", {"asia", "middle east"}>>,
    <<"Oman", {"asia", "middle east"}>>,
    <<"Yemen", {"asia", "middle east"}>>,
    <<"India", {"asia", "south asia"}>>,
    <<"Bangladesh", {"asia", "south asia"}>>,
    <<"Pakistan", {"asia", "south asia"}>>,
    <<"China", {"asia", "east asia"}>>,
    <<"Japan", {"asia", "east asia"}>>,
    <<"South Korea", {"asia", "east asia"}>>,
    <<"Kenya", {"africa", "east africa"}>>,
    <<"Nigeria", {"africa", "west africa"}>>,
    <<"South Africa", {"africa"}>>,
    <<"Brazil", {"south america"}>>,
    <<"Argentina", {"south america"}>>,
    <<"Chile", {"south america"}>>,
    <<"Australia", {"oceania"}>>,
    <<"New Zealand", {"oceania"}>> >>

(***************************************************************************)
(* Regions, states and provinces: <<name, abbreviation>>                   *)
(***************************************************************************)

_US_STATES == <<
    <<"Alabama", "AL">>,
    <<"Alaska", "AK">>,
    <<"Arizona", "AZ">>,
    <<"Arkansas", "AR">>,
    <<"California", "CA">>,
    <<"Colorado", "CO">>,
    <<"Connecticut", "CT">>,
    <<"Delaware", "DE">>,
    <<"District of Columbia", "DC">>,
    <<"Florida", "FL">>,
    <<"Georgia", "GA">>,
    <<"Hawaii", "HI">>,
    <<"Idaho", "ID">>,
    <<"Illinois", "IL">>,
    <<"Indiana", "IN">>,
    <<"Iowa", "IA">>,
    <<"Kansas", "KS">>,
    <<"Kentucky", "KY">>,
    <<"Louisiana", "LA">>,
    <<"Maine", "ME">>,
    <<"Maryland", "MD">>,
    <<"Massachusetts", "MA">>,
    <<"Michigan", "MI">>,
    <<"Minnesota", "MN">>,
    <<"Mississippi", "MS">>,
    <<"Missouri", "MO">>,
    <<"Montana", "MT">>,
    <<"Nebraska", "NE">>,
    <<"Nevada", "NV">>,
    <<"New Hampshire", "NH">>,
    <<"New Jersey", "NJ">>,
    <<"New Mexico", "NM">>,
    <<"New York", "NY">>,
    <<"North Carolina", "NC">>,
    <<"North Dakota", "ND">>,
    <<"Ohio", "OH">>,
    <<"Oklahoma", "OK">>,
    <<"Oregon", "OR">>,
    <<"Pennsylvania", "PA">>,
    <<"Rhode Island", "RI">>,
    <<"South Carolina", "SC">>,
    <<"South Dakota", "SD">>,
    <<"Tennessee", "TN">>,
    <<"Texas", "TX">>,
    <<"Utah", "UT">>,
    <<"Vermont", "VT">>,
    <<"Virginia", "VA">>,
    <<"Washington", "WA">>,
    <<"West Virginia", "WV">>,
    <<"Wisconsin", "WI">>,
    <<"Wyoming", "WY">>,
    <<"Puerto Rico", "PR">> >>

_CANADA_PROVINCES == <<
    <<"Alberta", "AB">>,
    <<"British Columbia", "BC">>,
    <<"Manitoba", "MB">>,
    <<"New Brunswick", "NB">>,
    <<"Newfoundland and Labrador", "NL">>,
    <<"Northwest Territories", "NT">>,
    <<"Nova Scotia", "NS">>,
    <<"Nunavut", "NU">>,
    <<"Ontario", "ON">>,
    <<"Prince Edward Island", "PE">>,
    <<"Quebec", "QC">>,
    <<"Saskatchewan", "SK">>,
    <<"Yukon", "YT">> >>

_MEXICO_STATES == <<
    <<"Sinaloa", "SIN">>,
    <<"Coahuila", "COA">>,
    <<"Nuevo Leon", "NLE">>,
    <<"Durango", "DUR">> >>

_SPAIN_REGIONS == <<
    <<"Galicia", "">>,
    <<"Asturias", "">>,
    <<"Castile and Leon", "">>,
    <<"Basque Country", "">>,
    <<"Navarre", "">>,
    <<"Aragon", "">>,
    <<"Catalonia", "">> >>

_AUSTRALIA_STATES == <<
    <<"New South Wales", "NSW">>,
    <<"Queensland", "QLD">>,
    <<"Northern Territory", "NT">>,
    <<"Western Australia", "WA">>,
    <<"Victoria", "VIC">>,
    <<"South Australia", "SA">>,
    <<"Tasmania", "TAS">> >>

_NEW_ZEALAND_REGIONS == <<
    <<"North Island", "">>,
    <<"South Island", "">>,
    <<"Southland", "">>,
    <<"Otago", "">> >>

\* The region-level aliases _build_region_aliases assigns after the
\* per-country tables: <<key, <<name, None>>>>.
MacroRegionAliases == <<
    <<"north america", <<"North America", None>>>>,
    <<"south america", <<"South America", None>>>>,
    <<"central america", <<"Central America", None>>>>,
    <<"europe", <<"Europe", None>>>>,
    <<"western europe", <<"Western Europe", None>>>>,
    <<"eastern europe", <<"Eastern Europe", None>>>>,
    <<"africa", <<"Africa", None>>>>,
    <<"north africa", <<"North Africa", None>>>>,
    <<"east africa", <<"East Africa", None>>>>,
    <<"west africa", <<"West Africa", None>>>>,
    <<"middle east", <<"Middle East", None>>>>,
    <<"south asia", <<"South Asia", None>>>>,
    <<"east asia", <<"East Asia", None>>>>,
    <<"oceania", <<"Oceania", None>>>>,
    <<"arctic", <<"Arctic", None>>>> >>

(***************************************************************************)
(* Postal code tables: <<lower, upper, state>> and <<letter, province>>    *)
(***************************************************************************)

_ZIP_STATE_RANGES == <<
    <<5, 9, "Puerto Rico">>,
    <<10, 27, "Massachusetts">>,
    <<28, 29, "Rhode Island">>,
    <<30, 38, "New Hampshire">>,
    <<39, 49, "Maine">>,
    <<50, 59, "Vermont">>,
    <<60, 69, "Connecticut">>,
    <<70, 89, "New Jersey">>,
    <<90, 98, "Armed Forces Europe">>,
    <<100, 149, "New York">>,
    <<150, 196, "Pennsylvania">>,
    <<197, 199, "Delaware">>,
    <<200, 205, "District of Columbia">>,
    <<206, 219, "Maryland">>,
    <<220, 246, "Virginia">>,
    <<247, 268, "West Virginia">>,
    <<270, 289, "North Carolina">>,
    <<290, 299, "South Carolina">>,
    <<300, 319, "Georgia">>,
    <<320, 349, "Florida">>,
    <<350, 369, "Alabama">>,
    <<370, 385, "Tennessee">>,
    <<386, 397, "Mississippi">>,
    <<398, 399, "Georgia">>,
    <<400, 427, "Kentucky">>,
    <<430, 459, "Ohio">>,
    <<460, 479, "Indiana">>,
    <<480, 499, "Michigan">>,
    <<500, 528, "Iowa">>,
    <<530, 549, "Wisconsin">>,
    <<550, 567, "Minnesota">>,
    <<570, 577, "South Dakota">>,
    <<580, 588, "North Dakota">>,
    <<590, 599, "Montana">>,
    <<600, 629, "Illinois">>,
    <<630, 658, "Missouri">>,
    <<660, 679, "Kansas">>,
    <<680, 693, "Nebraska">>,
    <<700, 715, "Louisiana">>,
    <<716, 729, "Arkansas">>,
    <<730, 749, "Oklahoma">>,
    <<750, 799, "Texas">>,
    <<800, 816, "Colorado">>,
    <<820, 831, "Wyoming">>,
    <<832, 838, "Idaho">>,
    <<840, 847, "Utah">>,
    <<850, 865, "Arizona">>,
    <<870, 884, "New Mexico">>,
    <<889, 898, "Nevada">>,
    <<900, 961, "California">>,
    <<962, 966, "Armed Forces Pacific">>,
    <<967, 968, "Hawaii">>,
    <<970, 979, "Oregon">>,
    <<980, 994, "Washington">>,
    <<995, 999, "Alaska">> >>

_CANADA_POSTAL_PREFIX == <<
    <<"A", "Newfoundland and Labrador">>,
    <<"B", "Nova Scotia">>,
    <<"C", "Prince Edward Island">>,
    <<"E", "New Brunswick">>,
    <<"G", "Quebec">>,
    <<"H", "Quebec">>,
    <<"J", "Quebec">>,
    <<"K", "Ontario">>,
    <<"L", "Ontario">>,
    <<"M", "Ontario">>,
    <<"N", "Ontario">>,
    <<"P", "Ontario">>,
    <<"R", "Manitoba">>,
    <<"S", "Saskatchewan">>,
    <<"T", "Alberta">>,
    <<"V", "British Columbia">>,
    <<"X", "Nunavut">>,
    <<"Y", "Yukon">> >>

(***************************************************************************)
(* _build_region_aliases                                                   *)
(***************************************************************************)
\* add(entries, country): for each (name, abbr) the assignment of
\* name.lower() and then, when abbr is not empty, of abbr.lower().
RECURSIVE AddEntries(_, _)
AddEntries(entries, country) ==
    IF entries = <<>> THEN <<>>
    ELSE LET name == Head(entries)[1]
             abbr == Head(entries)[2]
         IN  <<<<Lower(name), <<name, country>>>>>>
             \o (IF abbr # "" THEN <<<<Lower(abbr), <<name, country>>>>>> ELSE <<>>)
             \o AddEntries(Tail(entries), country)

\* The per-country region tables with the country each is added under.
RegionTables ==
    <<<<_US_STATES, "United States">>, <<_CANADA_PROVINCES, "Canada">>,
      <<_MEXICO_STATES, "Mexico">>, <<_SPAIN_REGIONS, "Spain">>,
      <<_AUSTRALIA_STATES, "Australia">>, <<_NEW_ZEALAND_REGIONS, "New Zealand">>>>

\* Every assignment to result[...] that _build_region_aliases makes, in order.
RegionAssignments ==
    AddEntries(_US_STATES, Some("United States"))
    \o AddEntries(_CANADA_PROVINCES, Some("Canada"))
    \o AddEntries(_MEXICO_STATES, Some("Mexico"))
    \o AddEntries(_SPAIN_REGIONS, Some("Spain"))
    \o AddEntries(_AUSTRALIA_STATES, Some("Australia"))
    \o AddEntries(_NEW_ZEALAND_REGIONS, Some("New Zealand"))
    \o MacroRegionAliases

_build_region_aliases == DictOf(RegionAssignments)

_REGION_ALIAS_LOOKUP == _build_region_aliases

CountryCanonicalDict == DictOf(_COUNTRY_CANONICAL)

CountryMacroregionsDict == DictOf(_COUNTRY_MACROREGIONS)

CanadaPostalPrefixDict == DictOf(_CANADA_POSTAL_PREFIX)

\* _COUNTRY_CANONICAL.get(token): None when the key is absent
CountryGet(token) ==
    IF token \in DOMAIN CountryCanonicalDict
    THEN Some(CountryCanonicalDict[token]) ELSE None

\* _REGION_ALIAS_LOOKUP.get(token): None, or <<(name, country)>>
RegionGet(token) ==
    IF token \in DOMAIN _REGION_ALIAS_LOOKUP
    THEN <<_REGION_ALIAS_LOOKUP[token]>> ELSE None

(***************************************************************************)
(* Postal code resolution                                                  *)
(***************************************************************************)
\* re.fullmatch(r"\d{5}(?:-\d{4})?", s)
MatchesZip(s) ==
    \/ Len(s) = 5 /\ \A i \in 1..5 : IsDigit(At(s, i))
    \/ /\ Len(s) = 10
       /\ \A i \in 1..5 : IsDigit(At(s, i))
       /\ At(s, 6) = "-"
       /\ \A i \in 7..10 : IsDigit(At(s, i))

\* re.fullmatch(r"[A-Za-z]\d[A-Za-z](?:\s?\d[A-Za-z]\d)?", s)
MatchesCanadian(s) ==
    /\ Len(s) \in {3, 6, 7}
    /\ IsAlpha(At(s, 1)) /\ IsDigit(At(s, 2)) /\ IsAlpha(At(s, 3))
    /\ Len(s) = 6 => IsDigit(At(s, 4)) /\ IsAlpha(At(s, 5)) /\ IsDigit(At(s, 6))
    /\ Len(s) = 7 => /\ At(s, 4) \in Whitespace
                     /\ IsDigit(At(s, 5)) /\ IsAlpha(At(s, 6)) /\ IsDigit(At(s, 7))

\* FirstRange with the upper bound of a range taken as exclusive
RECURSIVE FirstRange_ExclusiveUpper(_, _)
FirstRange_ExclusiveUpper(prefix, i) ==
    IF i > Len(_ZIP_STATE_RANGES) THEN None
    ELSE IF _ZIP_STATE_RANGES[i][1] <= prefix /\ prefix < _ZIP_STATE_RANGES[i][2]
    THEN <<<<_ZIP_STATE_RANGES[i][3], "United States">>>>
    ELSE FirstRange_ExclusiveUpper(prefix, i + 1)

\* The first range in table order, from index i on, that contains prefix.
RECURSIVE FirstRange(_, _)
FirstRange(prefix, i) ==
    IF i > Len(_ZIP_STATE_RANGES) THEN None
    ELSE IF _ZIP_STATE_RANGES[i][1] <= prefix /\ prefix <= _ZIP_STATE_RANGES[i][2]
    THEN <<<<_ZIP_STATE_RANGES[i][3], "United States">>>>
    ELSE FirstRange(prefix, i + 1)

\* None, or <<(state, country)>>
_resolve_us_zip(zip_code) ==
    LET digits == DigitsOnly(zip_code)
    IN  IF Len(digits) < 3 THEN None
        ELSE FirstRange(ToInt(SubSeq(digits, 1, 3)), 1)

\* str.replace(" ", "")
RECURSIVE RemoveSpaces(_)
RemoveSpaces(s) ==
    IF s = "" THEN ""
    ELSE (IF Head(s) = " " THEN "" ELSE Head(s)) \o RemoveSpaces(Tail(s))

_resolve_canadian_postal(code) ==
    LET cleaned == Upper(RemoveSpaces(code))
    IN  IF Len(cleaned) < 1 THEN None
        ELSE IF Head(cleaned) \in DOMAIN CanadaPostalPrefixDict
                /\ CanadaPostalPrefixDict[Head(cleaned)] # ""
        THEN <<<<CanadaPostalPrefixDict[Head(cleaned)], "Canada">>>>
        ELSE None

resolve_postal_code(code0) ==
    LET code == Strip(code0)
    IN  IF code = "" THEN None
        ELSE IF MatchesZip(code) THEN _resolve_us_zip(code)
        ELSE IF MatchesCanadian(code) THEN _resolve_canadian_postal(code)
        ELSE None

(***************************************************************************)
(* Location parsing                                                        *)
(***************************************************************************)
_normalise_token(value) == CollapseWhitespace(Lower(Strip(value)))

normalize_country(name) ==
    IF ~Truthy(name) THEN None
    ELSE LET token == _normalise_token(name[1])
         IN  IF token \in DOMAIN CountryCanonicalDict
             THEN Some(CountryCanonicalDict[token])
             ELSE Some(Strip(name[1]))

\* Mutant: the other element of the table entry (the country) is returned.
normalize_region_WrongElement(name) ==
    IF ~Truthy(name) THEN None
    ELSE LET region_candidate == RegionGet(_normalise_token(name[1]))
         IN  IF region_candidate # None
             THEN region_candidate[1][2]
             ELSE Some(Strip(name[1]))

normalize_region(name) ==
    IF ~Truthy(name) THEN None
    ELSE LET region_candidate == RegionGet(_normalise_token(name[1]))
         IN  IF region_candidate # None
             THEN Some(region_candidate[1][1])
             ELSE Some(Strip(name[1]))

LocationQuery(raw, city, region, country, postal_code) ==
    [raw |-> raw, city |-> city, region |-> region, country |-> country,
     postal_code |-> postal_code]

\* Mutant: the list of components ends at the first empty segment.
RECURSIVE StripNonEmpty_StopAtEmpty(_)
StripNonEmpty_StopAtEmpty(parts) ==
    IF parts = <<>> \/ Strip(Head(parts)) = "" THEN <<>>
    ELSE <<Strip(Head(parts))>> \o StripNonEmpty_StopAtEmpty(Tail(parts))

\* components = [c.strip() for c in raw.split(",") if c.strip()]
RECURSIVE StripNonEmpty(_)
StripNonEmpty(parts) ==
    IF parts = <<>> THEN <<>>
    ELSE (IF Strip(Head(parts)) # "" THEN <<Strip(Head(parts))>> ELSE <<>>)
         \o StripNonEmpty(Tail(parts))

Components(raw) == StripNonEmpty(Split(raw, ","))

\* One pass of the body of "for component in reversed(components)" over the
\* accumulator [city, region, country].
ScanStep(acc, component) ==
    LET token == _normalise_token(component)
        country_candidate == CountryGet(token)
        region_candidate == RegionGet(token)
    IN  IF ~Truthy(acc.country) /\ Truthy(country_candidate)
        THEN [acc EXCEPT !.country = country_candidate]
        ELSE IF ~Truthy(acc.region) /\ region_candidate # None
        THEN [acc EXCEPT
                !.region = Some(region_candidate[1][1]),
                !.country = IF Truthy(region_candidate[1][2]) /\ ~Truthy(acc.country)
                            THEN region_candidate[1][2] ELSE @]
        ELSE [acc EXCEPT
                !.city = IF ~Truthy(acc.city)
                         THEN Some(Strip(component))
                         ELSE Some(Strip(component) \o " " \o acc.city[1])]

\* Mutant: the components scanned left to right.
RECURSIVE ScanComponents_Forward(_, _, _)
ScanComponents_Forward(components, i, acc) ==
    IF i = 0 THEN acc
    ELSE ScanComponents_Forward(components, i - 1,
                                ScanStep(acc, components[Len(components) - i + 1]))

\* The loop over components[i], components[i-1], ..., components[1].
RECURSIVE ScanComponents(_, _, _)
ScanComponents(components, i, acc) ==
    IF i = 0 THEN acc
    ELSE ScanComponents(components, i - 1, ScanStep(acc, components[i]))

\* if not city and components: city = components[0].strip()
FallbackCity(acc, components) ==
    IF ~Truthy(acc.city) /\ components # <<>>
    THEN [acc EXCEPT !.city = Some(Strip(components[1]))]
    ELSE acc

\* Mutant: the pattern \b([A-Za-z]+)$, a trailing word of any length.
TrailingMatchStart_AnyLength(city) ==
    LET n == Len(city)
        starts == {s \in 0..(n - 1) :
                     /\ \A k \in (s + 1)..n : IsAlpha(At(city, k))
                     /\ (s = 0 \/ ~IsWordChar(At(city, s)))}
    IN  IF starts # {} THEN CHOOSE s \in starts : \A t \in starts : s <= t ELSE -1

\* re.search(r"\b([A-Za-z]{2})$", city): the start (0-based) of the match, or -1.
TrailingMatchStart(city) ==
    LET n == Len(city)
    IN  IF /\ n >= 2
           /\ IsAlpha(At(city, n - 1)) /\ IsAlpha(At(city, n))
           /\ (n = 2 \/ ~IsWordChar(At(city, n - 2)))
        THEN n - 2 ELSE -1

\* Peel a trailing state/province abbreviation off the city.
PeelTrailing(acc) ==
    IF ~Truthy(acc.city) THEN acc
    ELSE LET city == acc.city[1]
             start == TrailingMatchStart(city)
         IN  IF start >= 0 /\ ~Truthy(acc.region)
             THEN LET candidate == Lower(SubSeq(city, start + 1, Len(city)))
                      region_candidate == RegionGet(candidate)
                  IN  IF region_candidate # None
                      THEN LET rest == Strip(StripChars(SubSeq(city, 1, start), {",", " "}))
                           IN  [city |-> IF rest # "" THEN Some(rest) ELSE None,
                                region |-> Some(region_candidate[1][1]),
                                country |-> IF Truthy(region_candidate[1][2])
                                               /\ ~Truthy(acc.country)
                                            THEN region_candidate[1][2]
                                            ELSE acc.country]
                      ELSE acc
             ELSE acc

\* if region and not country: infer the country from the region mapping.
InferCountry(acc) ==
    IF Truthy(acc.region) /\ ~Truthy(acc.country)
    THEN LET region_candidate == RegionGet(Lower(acc.region[1]))
         IN  IF region_candidate # None /\ Truthy(region_candidate[1][2])
             THEN [acc EXCEPT !.country = region_candidate[1][2]]
             ELSE acc
    ELSE acc

\* Mutant: the city is not compared with the region.
CollapseCity_KeepsRegionName(acc) ==
    LET c1 == IF Truthy(acc.city)
              THEN (IF Strip(acc.city[1]) # "" THEN Some(Strip(acc.city[1])) ELSE None)
              ELSE acc.city
        c3 == IF Truthy(c1) /\ Truthy(acc.country) /\ Lower(c1[1]) = Lower(acc.country[1])
              THEN None ELSE c1
    IN  [acc EXCEPT !.city = c3]

\* The three "if city" statements that end the parse.
CollapseCity(acc) ==
    LET c1 == IF Truthy(acc.city)
              THEN (IF Strip(acc.city[1]) # "" THEN Some(Strip(acc.city[1])) ELSE None)
              ELSE acc.city
        c2 == IF Truthy(c1) /\ Truthy(acc.region) /\ Lower(c1[1]) = Lower(acc.region[1])
              THEN None ELSE c1
        c3 == IF Truthy(c2) /\ Truthy(acc.country) /\ Lower(c2[1]) = Lower(acc.country[1])
              THEN None ELSE c2
    IN  [acc EXCEPT !.city = c3]

\* Mutant: the emptiness test on the input as typed, not on the trimmed input.
RaisesValueError_Untrimmed(user_input) == user_input = ""

\* Mutant: ValueError also when the input has no non-empty segment.
RaisesValueError_NoComponents(user_input) == Components(Strip(user_input)) = <<>>

\* parse_location_input raises ValueError exactly when this holds.
RaisesValueError(user_input) == Strip(user_input) = ""

\* Mutant: the shortcut for ZIP codes only.
IsPostalShape_ZipOnly(raw) == MatchesZip(raw)

\* The postal code shortcut is taken.
IsPostalShape(raw) == MatchesZip(raw) \/ MatchesCanadian(raw)

\* Mutant: raw is the trimmed input.
parse_location_input_TrimmedRaw(user_input) ==
    LET raw == Strip(user_input)
    IN  IF IsPostalShape(raw)
        THEN LET lookup == resolve_postal_code(raw)
             IN  LocationQuery(raw, None,
                               IF lookup # None THEN Some(lookup[1][1]) ELSE None,
                               IF lookup # None THEN Some(lookup[1][2]) ELSE None,
                               Some(raw))
        ELSE LET components == Components(raw)
                 scanned == ScanComponents(components, Len(components),
                                [city |-> None, region |-> None, country |-> None])
                 acc == CollapseCity(InferCountry(PeelTrailing(
                            FallbackCity(scanned, components))))
             IN  LocationQuery(raw, acc.city,
                               normalize_region(acc.region),
                               normalize_country(acc.country), None)

\* The LocationQuery parse_location_input returns when it does not raise.
parse_location_input(user_input) ==
    LET raw == Strip(user_input)
    IN  IF IsPostalShape(raw)
        THEN LET lookup == resolve_postal_code(raw)
             IN  LocationQuery(user_input, None,
                               IF lookup # None THEN Some(lookup[1][1]) ELSE None,
                               IF lookup # None THEN Some(lookup[1][2]) ELSE None,
                               Some(raw))
        ELSE LET components == Components(raw)
                 scanned == ScanComponents(components, Len(components),
                                [city |-> None, region |-> None, country |-> None])
                 acc == CollapseCity(InferCountry(PeelTrailing(
                            FallbackCity(scanned, components))))
             IN  LocationQuery(user_input, acc.city,
                               normalize_region(acc.region),
                               normalize_country(acc.country), None)

(***************************************************************************)
(* LocationQuery.tokens                                                    *)
(***************************************************************************)
\* Mutant: the macro-region labels of the country left out.
tokens_NoMacroregions(self) ==
    (IF Truthy(self.city)
     THEN {Lower(word) : word \in Range(Words(self.city[1]))} \cup {Lower(self.city[1])}
     ELSE {})
    \cup
    (IF Truthy(self.region)
     THEN {Lower(self.region[1])}
          \cup {Lower(word) : word \in Range(Words(self.region[1]))}
     ELSE {})
    \cup
    (IF Truthy(self.country)
     THEN {Lower(self.country[1])}
          \cup {alias \in DOMAIN CountryCanonicalDict :
                  CountryCanonicalDict[alias] = self.country[1]}
     ELSE {})

tokens(self) ==
    (IF Truthy(self.city)
     THEN {Lower(word) : word \in Range(Words(self.city[1]))} \cup {Lower(self.city[1])}
     ELSE {})
    \cup
    (IF Truthy(self.region)
     THEN {Lower(self.region[1])}
          \cup {Lower(word) : word \in Range(Words(self.region[1]))}
     ELSE {})
    \cup
    (IF Truthy(self.country)
     THEN {Lower(self.country[1])}
          \cup {alias \in DOMAIN CountryCanonicalDict :
                  CountryCanonicalDict[alias] = self.country[1]}
          \cup (IF self.country[1] \in DOMAIN CountryMacroregionsDict
                THEN CountryMacroregionsDict[self.country[1]] ELSE {})
     ELSE {})

(***************************************************************************)
(* Visibility windows, events and the matcher                              *)
(***************************************************************************)
VisibilityWindow(countries, regions, notes) ==
    [countries |-> countries, regions |-> regions, notes |-> notes]

\* The fields of EclipseEvent the matcher reads.
EclipseEvent(occurs_on, visibility) ==
    [occurs_on |-> occurs_on, visibility |-> visibility]

\* Mutant: the country check passes whenever the location has no country.
CountryGate_OpenWithoutCountry(window, loc) ==
    LET location_tokens == tokens(loc)
        country_tokens == {Lower(country) : country \in Range(window.countries)}
    IN  IF country_tokens # {}
        THEN IF Truthy(loc.country)
             THEN ~(/\ Lower(loc.country[1]) \notin country_tokens
                    /\ location_tokens \cap country_tokens = {})
             ELSE TRUE
        ELSE TRUE

\* The country check: FALSE when the function returns False there.
CountryGate(window, loc) ==
    LET location_tokens == tokens(loc)
        country_tokens == {Lower(country) : country \in Range(window.countries)}
    IN  IF country_tokens # {}
        THEN IF Truthy(loc.country)
             THEN ~(/\ Lower(loc.country[1]) \notin country_tokens
                    /\ location_tokens \cap country_tokens = {})
             ELSE location_tokens \cap country_tokens # {}
        ELSE TRUE

\* Mutant: without the early return for a window that lists no regions.
RegionMatch_NoEarlyReturn(window, loc) ==
    LET location_tokens == tokens(loc)
        country_tokens == {Lower(country) : country \in Range(window.countries)}
        region_tokens == {Lower(region) : region \in Range(window.regions)}
    IN  IF Truthy(loc.region) /\ Lower(loc.region[1]) \in region_tokens THEN TRUE
        ELSE IF location_tokens \cap region_tokens # {} THEN TRUE
        ELSE IF /\ loc.region = None
                /\ country_tokens # {}
                /\ Truthy(loc.country)
                /\ Lower(loc.country[1]) \in country_tokens
        THEN TRUE
        ELSE FALSE

\* Mutant: without the last check, the country-level match of a location
\* that has no region.
RegionMatch_NoCountryFallback(window, loc) ==
    LET location_tokens == tokens(loc)
        region_tokens == {Lower(region) : region \in Range(window.regions)}
    IN  IF region_tokens = {} THEN TRUE
        ELSE IF Truthy(loc.region) /\ Lower(loc.region[1]) \in region_tokens THEN TRUE
        ELSE IF location_tokens \cap region_tokens # {} THEN TRUE
        ELSE FALSE

\* What the function returns once the country check has passed.
RegionMatch(window, loc) ==
    LET location_tokens == tokens(loc)
        country_tokens == {Lower(country) : country \in Range(window.countries)}
        region_tokens == {Lower(region) : region \in Range(window.regions)}
    IN  IF region_tokens = {} THEN TRUE
        ELSE IF Truthy(loc.region) /\ Lower(loc.region[1]) \in region_tokens THEN TRUE
        ELSE IF location_tokens \cap region_tokens # {} THEN TRUE
        ELSE IF /\ loc.region = None
                /\ country_tokens # {}
                /\ Truthy(loc.country)
                /\ Lower(loc.country[1]) \in country_tokens
        THEN TRUE
        ELSE FALSE

_window_matches_location(window, loc) ==
    IF ~CountryGate(window, loc) THEN FALSE ELSE RegionMatch(window, loc)

\* The loop of is_visible_from over event.visibility from index i on.
RECURSIVE AnyWindowMatches(_, _, _)
AnyWindowMatches(visibility, loc, i) ==
    IF i > Len(visibility) THEN FALSE
    ELSE IF _window_matches_location(visibility[i], loc) THEN TRUE
    ELSE AnyWindowMatches(visibility, loc, i + 1)

is_visible_from(event, loc) == AnyWindowMatches(event.visibility, loc, 1)

\* Mutant: the last matching window instead of the first.
RECURSIVE FirstMatchingWindow_Last(_, _, _)
FirstMatchingWindow_Last(visibility, loc, i) ==
    IF i > Len(visibility) THEN None
    ELSE LET later == FirstMatchingWindow_Last(visibility, loc, i + 1)
         IN  IF later # None THEN later
             ELSE IF _window_matches_location(visibility[i], loc) THEN <<visibility[i]>>
             ELSE None

\* The loop of matching_window over event.visibility from index i on: None,
\* or <<window>>.
RECURSIVE FirstMatchingWindow(_, _, _)
FirstMatchingWindow(visibility, loc, i) ==
    IF i > Len(visibility) THEN None
    ELSE IF _window_matches_location(visibility[i], loc) THEN <<visibility[i]>>
    ELSE FirstMatchingWindow(visibility, loc, i + 1)

matching_window(event, loc) == FirstMatchingWindow(event.visibility, loc, 1)

\* reference_date = start_date or date.today(); a date is never falsy.
ReferenceDate(start, now) == IF start # None THEN start[1] ELSE now

\* Mutant: an event on the reference date itself is skipped.
RECURSIVE NextVisibleIndex_SkipEqual(_, _, _, _)
NextVisibleIndex_SkipEqual(evts, loc, reference_date, i) ==
    IF i > Len(evts) THEN 0
    ELSE IF evts[i].occurs_on <= reference_date
    THEN NextVisibleIndex_SkipEqual(evts, loc, reference_date, i + 1)
    ELSE IF is_visible_from(evts[i], loc) THEN i
    ELSE NextVisibleIndex_SkipEqual(evts, loc, reference_date, i + 1)

\* The loop of next_visible_event over events from index i on: the index of
\* the event returned, 0 when None is returned.
RECURSIVE NextVisibleIndex(_, _, _, _)
NextVisibleIndex(evts, loc, reference_date, i) ==
    IF i > Len(evts) THEN 0
    ELSE IF evts[i].occurs_on < reference_date
    THEN NextVisibleIndex(evts, loc, reference_date, i + 1)
    ELSE IF is_visible_from(evts[i], loc) THEN i
    ELSE NextVisibleIndex(evts, loc, reference_date, i + 1)

\* None, or <<event>>
next_visible_event(evts, loc, start, now) ==
    LET i == NextVisibleIndex(evts, loc, ReferenceDate(start, now), 1)
    IN  IF i = 0 THEN None ELSE <<evts[i]>>

(***************************************************************************)
(* State                                                                   *)
(***************************************************************************)
VARIABLES
    pc,          \* which call is in progress and how it ended
    user_input,  \* the text handed to parse_location_input
    location,    \* the LocationQuery parsed or handed to the matcher
    window,      \* the VisibilityWindow handed to _window_matches_location
    events,      \* the date-ascending catalog handed to next_visible_event
    start_date,  \* its start_date argument: None, or <<date>>
    today,       \* what date.today() returns
    ret,         \* what the call returned
    selected     \* what the call that followed on ret returned

vars == <<pc, user_input, location, window, events, start_date, today, ret, selected>>

NoLocation == LocationQuery("", None, None, None, None)

NoWindow == VisibilityWindow(<<>>, <<>>, "")

\* All sequences over S of length at most n
SeqsUpTo(S, n) == UNION {[1..k -> S] : k \in 0..n}

(***************************************************************************)
(* Inputs of the parser                                                    *)
(***************************************************************************)
MaxSegments == 3

\* The comma-separated segments the inputs are assembled from.
SegmentWords ==
    {"", " ", "Austin", "Old Town", "TX", "texas", " usa ", "Canada",
     "Ontario", "North America", "WA", "Seattle WA", "New  York", "Galicia",
     "78701", "K1A 0B1", "Lyon Europe"}

\* Whole inputs around the two postal shapes, and blank ones.
PostalInputs ==
    {"78701", " 78701 ", "78701-1234", "00100", "99999", "7870", "787011",
     "78701-123", "78701 1234", "K1A", "k1a 0b1", "K1A0B1", "D1A 0B1",
     "K1A  0B1", "K1A\t0B1", "1K1", "K1A 0B", "\n78701\n",
     "\t", "  ", " \t\n", "\n"}

\* Every region name and every abbreviation the tables list, as listed.
RegionTableKeys ==
    UNION {{e[1], e[2]} \ {""} :
             e \in UNION {Range(RegionTables[t][1]) : t \in DOMAIN RegionTables}}

\* Inputs written the way a user types them, with a space after the comma.
TypedInputs ==
    {"Ontario, Canada", "TX, USA", "Austin, TX, USA", " Austin , Texas ",
     "Texas, Mexico", "USA", ", ,", "Canada, Canada"}

\* ",".join(segments)
RECURSIVE Join(_)
Join(segments) ==
    IF segments = <<>> THEN ""
    ELSE IF Len(segments) = 1 THEN segments[1]
    ELSE segments[1] \o "," \o Join(Tail(segments))

ParseInputs ==
    PostalInputs \cup RegionTableKeys \cup TypedInputs
    \cup {Join(segments) : segments \in SeqsUpTo(SegmentWords, MaxSegments)}

(***************************************************************************)
(* parse_location_input as called by app.main                              *)
(***************************************************************************)
InitParse ==
    /\ pc = "parse"
    /\ user_input \in ParseInputs
    /\ location = NoLocation
    /\ window = NoWindow
    /\ events = <<>>
    /\ start_date = None
    /\ today = 0
    /\ ret = None
    /\ selected = None

\* raise ValueError("Location input cannot be empty.")
ParseRaise ==
    /\ pc = "parse"
    /\ RaisesValueError(user_input)
    /\ pc' = "ValueError"
    /\ UNCHANGED <<user_input, location, window, events, start_date, today, ret, selected>>

ParseReturn ==
    /\ pc = "parse"
    /\ ~RaisesValueError(user_input)
    /\ location' = parse_location_input(user_input)
    /\ pc' = "parsed"
    /\ UNCHANGED <<user_input, window, events, start_date, today, ret, selected>>

NextParse == ParseRaise \/ ParseReturn

SpecParse == InitParse /\ [][NextParse]_vars

(***************************************************************************)
(* Inputs of the matcher                                                   *)
(***************************************************************************)
MaxRegions == 1

\* The canonical country names (the values of _COUNTRY_CANONICAL)
CanonicalCountries == {_COUNTRY_CANONICAL[i][2] : i \in DOMAIN _COUNTRY_CANONICAL}

\* The macro-region labels of _COUNTRY_MACROREGIONS
MacroLabels == UNION {_COUNTRY_MACROREGIONS[i][2] : i \in DOMAIN _COUNTRY_MACROREGIONS}

MatchCities == {None, Some("Austin")}

MatchRegions == {None, Some(""), Some("Texas"), Some("New Mexico")}

MatchCountries == {None} \cup {Some(c) : c \in CanonicalCountries}

MatchLocations ==
    {LocationQuery("", city, region, country, None) :
        city \in MatchCities, region \in MatchRegions, country \in MatchCountries}

CountryLists == {<<>>, <<"United States">>, <<"Mexico">>, <<"canada", "USA">>}

\* Labels a catalog window lists under regions, in several letter cases.
RegionLabels ==
    MacroLabels \cup {"North America", "NORTH AMERICA", "Middle East", "Texas", ""}

MatchWindows ==
    {VisibilityWindow(countries, regions, "") :
        countries \in CountryLists, regions \in SeqsUpTo(RegionLabels, MaxRegions)}

(***************************************************************************)
(* _window_matches_location                                                *)
(***************************************************************************)
InitMatch ==
    /\ pc = "match"
    /\ user_input = ""
    /\ location \in MatchLocations
    /\ window \in MatchWindows
    /\ events = <<>>
    /\ start_date = None
    /\ today = 0
    /\ ret = None
    /\ selected = None

WindowMatches ==
    /\ pc = "match"
    /\ ret' = _window_matches_location(window, location)
    /\ pc' = "matched"
    /\ UNCHANGED <<user_input, location, window, events, start_date, today, selected>>

NextMatch == WindowMatches

SpecMatch == InitMatch /\ [][NextMatch]_vars

(***************************************************************************)
(* Inputs of next_visible_event                                            *)
(***************************************************************************)
MaxEvents == 3

Dates == {1, 2, 3}

NextLocations ==
    {parse_location_input("Austin, TX, USA"),
     parse_location_input("Galicia"),
     parse_location_input("Old Town")}

\* The visibility lists of the catalog events: global, by macro-region, by
\* country, and lists of several windows.
Visibilities ==
    {<<>>,
     <<VisibilityWindow(<<>>, <<>>, "everywhere")>>,
     <<VisibilityWindow(<<>>, <<"Asia">>, ""), VisibilityWindow(<<>>, <<"North America">>, "")>>,
     <<VisibilityWindow(<<>>, <<"Oceania">>, ""),
       VisibilityWindow(<<"Spain">>, <<"Galicia">>, "path of totality"),
       VisibilityWindow(<<"Spain", "United States">>, <<>>, "partial")>>}

\* Catalogs are date-ascending: _load_catalog returns sorted(events).
Catalogs ==
    {evts \in SeqsUpTo({EclipseEvent(d, v) : d \in Dates, v \in Visibilities}, MaxEvents) :
        \A i \in 1..(Len(evts) - 1) : evts[i].occurs_on <= evts[i + 1].occurs_on}

(***************************************************************************)
(* next_visible_event, and matching_window as app.describe_event calls it  *)
(***************************************************************************)
InitNext ==
    /\ pc = "search"
    /\ user_input = ""
    /\ location \in NextLocations
    /\ window = NoWindow
    /\ events \in Catalogs
    /\ \/ start_date \in {Some(d) : d \in Dates} /\ today = 0
       \/ start_date = None /\ today \in Dates
    /\ ret = None
    /\ selected = None

NextVisibleEvent ==
    /\ pc = "search"
    /\ ret' = next_visible_event(events, location, start_date, today)
    /\ pc' = "searched"
    /\ UNCHANGED <<user_input, location, window, events, start_date, today, selected>>

\* describe_event(event, location) on the event found
DescribeEvent ==
    /\ pc = "searched"
    /\ ret # None
    /\ selected' = matching_window(ret[1], location)
    /\ pc' = "described"
    /\ UNCHANGED <<user_input, location, window, events, start_date, today, ret>>

NextSearch == NextVisibleEvent \/ DescribeEvent

SpecNext == InitNext /\ [][NextSearch]_vars

(***************************************************************************)
(* normalize_country and normalize_region, applied once and once more      *)
(***************************************************************************)
\* The canonical names of the region alias table
CanonicalRegionNames ==
    {RegionAssignments[i][2][1] : i \in DOMAIN RegionAssignments}

\* Every alias and canonical name of the registry, as listed and in other
\* letter cases, and names the registry does not know.
RegistryInputs ==
    DOMAIN CountryCanonicalDict \cup CanonicalCountries
    \cup DOMAIN _REGION_ALIAS_LOOKUP \cup CanonicalRegionNames \cup RegionTableKeys
    \cup {Upper(k) : k \in DOMAIN CountryCanonicalDict}
    \cup {"", " USA ", "united  states", "New  York", " tx", "Atlantis",
          " atlantis ", "Old  Town", "PERU\n"}

InitRegistry ==
    /\ pc = "normalize"
    /\ user_input \in RegistryInputs
    /\ location = NoLocation
    /\ window = NoWindow
    /\ events = <<>>
    /\ start_date = None
    /\ today = 0
    /\ ret = None
    /\ selected = None

NormalizeCountry ==
    /\ pc = "normalize"
    /\ ret' = normalize_country(Some(user_input))
    /\ pc' = "country"
    /\ UNCHANGED <<user_input, location, window, events, start_date, today, selected>>

NormalizeCountryAgain ==
    /\ pc = "country"
    /\ selected' = normalize_country(ret)
    /\ pc' = "country twice"
    /\ UNCHANGED <<user_input, location, window, events, start_date, today, ret>>

NormalizeRegion ==
    /\ pc = "normalize"
    /\ ret' = normalize_region(Some(user_input))
    /\ pc' = "region"
    /\ UNCHANGED <<user_input, location, window, events, start_date, today, selected>>

NormalizeRegionAgain ==
    /\ pc = "region"
    /\ selected' = normalize_region(ret)
    /\ pc' = "region twice"
    /\ UNCHANGED <<user_input, location, window, events, start_date, today, ret>>

NextRegistry ==
    NormalizeCountry \/ NormalizeCountryAgain \/ NormalizeRegion \/ NormalizeRegionAgain

SpecRegistry == InitRegistry /\ [][NextRegistry]_vars

(***************************************************************************)
(* resolve_postal_code on its own                                          *)
(***************************************************************************)
\* Every three-digit ZIP prefix, 000 to 999
ZipPrefixes ==
    {a \o b \o c : a \in DOMAIN DigitValue, b \in DOMAIN DigitValue,
                   c \in DOMAIN DigitValue}

\* The rest of a ZIP code after its prefix: plain and ZIP+4
ZipTails == {"01", "99-1234"}

ZipCodes == {z \o t : z \in ZipPrefixes, t \in ZipTails}

\* Canadian codes for every first letter, in both letter cases, short and long
CanadianCodes ==
    {l \o "1A" : l \in DOMAIN UpperToLower \cup DOMAIN LowerToUpper}
    \cup {l \o "1A 0B1" : l \in DOMAIN UpperToLower}
    \cup {"K1A0B1", "k1a\t0b1"}

\* Codes of neither shape, and padded codes
OtherCodes ==
    {"", "  ", "1234", "787011", "78701-12", "78701-", "Austin", "K1", "1A1",
     " 78701 ", "\tK1A 0B1\n", "K1A  0B1"}

PostalCodes == ZipCodes \cup CanadianCodes \cup OtherCodes \cup PostalInputs

InitPostal ==
    /\ pc = "postal"
    /\ user_input \in PostalCodes
    /\ location = NoLocation
    /\ window = NoWindow
    /\ events = <<>>
    /\ start_date = None
    /\ today = 0
    /\ ret = None
    /\ selected = None

ResolvePostal ==
    /\ pc = "postal"
    /\ ret' = resolve_postal_code(user_input)
    /\ pc' = "resolved"
    /\ UNCHANGED <<user_input, location, window, events, start_date, today, selected>>

NextPostal == ResolvePostal

SpecPostal == InitPostal /\ [][NextPostal]_vars

(***************************************************************************)
(* The whole model                                                         *)
(***************************************************************************)
Init == InitParse \/ InitMatch \/ InitNext \/ InitRegistry \/ InitPostal

Next == NextParse \/ NextMatch \/ NextSearch \/ NextRegistry \/ NextPostal

Spec == Init /\ [][Next]_vars

(***************************************************************************)
(* Properties of parse_location_input (checked under SpecParse)            *)
(***************************************************************************)
\* Every character of s is in chars
OnlyOf(s, chars) == \A i \in 1..Len(s) : At(s, i) \in chars

ParseEnded == pc \in {"parsed", "ValueError"}

\* C1, as stated: for any input consisting only of commas and/or white space,
\* parse_location_input raises ValueError instead of returning a location.
C1_CommasOrBlankRaise ==
    ParseEnded /\ OnlyOf(user_input, Whitespace \cup {","}) => pc = "ValueError"

\* C1, amended: an input consisting only of white space raises ValueError; an
\* input of commas and white space with at least one comma does not raise and
\* returns the location with city, region, country and postal code all unset.
C1_BlankRaisesCommasReturnUnset ==
    ParseEnded /\ OnlyOf(user_input, Whitespace \cup {","}) =>
        IF OnlyOf(user_input, Whitespace)
        THEN pc = "ValueError"
        ELSE pc = "parsed" /\ location = LocationQuery(user_input, None, None, None, None)

\* C1 witness: a non-empty input of white space only has raised.
C1_Witness == pc = "ValueError" /\ user_input = " \t\n"

\* C2: ValueError for empty input is the only error: every input whose trimmed
\* form is not empty returns a location, also an unknown postal code, an
\* unrecognised country or a region that cannot be classified.
C2_OnlyEmptyInputRaises ==
    ParseEnded =>
        /\ Strip(user_input) # "" => pc = "parsed"
        /\ pc = "ValueError" => Strip(user_input) = ""

\* C2 witness: a Canadian-shaped code whose first letter has no table entry
\* returned a location with nothing resolved.
C2_Witness ==
    /\ pc = "parsed"
    /\ user_input = "D1A 0B1"
    /\ location.region = None /\ location.country = None

DigitChars == {"0", "1", "2", "3", "4", "5", "6", "7", "8", "9"}

LetterChars == DOMAIN UpperToLower \cup DOMAIN LowerToUpper

\* Five digits, optionally followed by a hyphen and four digits
C3_ZipShape(s) ==
    /\ Len(s) \in {5, 10}
    /\ OnlyOf(SubSeq(s, 1, 5), DigitChars)
    /\ Len(s) = 10 => At(s, 6) = "-" /\ OnlyOf(SubSeq(s, 7, 10), DigitChars)

\* Letter digit letter, optionally followed by digit letter digit with at most
\* one white-space character in between
C3_CanadianShape(s) ==
    LET ldl(t) == /\ At(t, 1) \in LetterChars
                  /\ At(t, 2) \in DigitChars
                  /\ At(t, 3) \in LetterChars
        dld(t) == /\ At(t, 1) \in DigitChars
                  /\ At(t, 2) \in LetterChars
                  /\ At(t, 3) \in DigitChars
    IN  \/ Len(s) = 3 /\ ldl(s)
        \/ Len(s) = 6 /\ ldl(s) /\ dld(SubSeq(s, 4, 6))
        \/ Len(s) = 7 /\ ldl(s) /\ At(s, 4) \in Whitespace /\ dld(SubSeq(s, 5, 7))

\* C3: the postal code is set exactly when the whole trimmed input has one of
\* the two postal shapes; then it equals the trimmed input, the city is unset,
\* and region and country are the resolver's pair, or both unset when the
\* resolver finds nothing.
C3_PostalPath ==
    pc = "parsed" =>
        LET raw == Strip(user_input)
            shape == C3_ZipShape(raw) \/ C3_CanadianShape(raw)
            pair == resolve_postal_code(raw)
        IN  /\ (location.postal_code # None) <=> shape
            /\ shape =>
                /\ location.postal_code = Some(raw)
                /\ location.city = None
                /\ IF pair = None
                   THEN location.region = None /\ location.country = None
                   ELSE /\ location.region = Some(pair[1][1])
                        /\ location.country = Some(pair[1][2])

\* C3 witness: a ZIP code whose prefix is in no range took the postal path and
\* kept its postal code with region and country unset.
C3_Witness ==
    /\ pc = "parsed"
    /\ user_input = "00100"
    /\ location.postal_code = Some("00100")
    /\ location.region = None

\* The entries <<name, abbreviation>> of all per-country region tables
RegionEntries == UNION {Range(RegionTables[t][1]) : t \in DOMAIN RegionTables}

\* The canonical names of the sub-national regions that token names or abbreviates
RegionNamesOf(token) ==
    {e[1] : e \in {f \in RegionEntries :
                     Lower(f[1]) = token \/ (f[2] # "" /\ Lower(f[2]) = token)}}

\* The canonical names of the countries that token is an alias of
CountryNamesOf(token) ==
    {p[2] : p \in {r \in Range(_COUNTRY_CANONICAL) : r[1] = token}}

\* token is a key of the region alias table (macro-region labels included)
IsRegionAlias(token) ==
    \/ RegionNamesOf(token) # {}
    \/ \E i \in DOMAIN MacroRegionAliases : MacroRegionAliases[i][1] = token

\* Case-insensitive, white-space-normalised form of a segment
Normalised(segment) == CollapseWhitespace(Lower(Strip(segment)))

\* C4: for an input "C, R, K" where K is an alias of a country, R a name or
\* abbreviation of a sub-national region and C (not blank) neither a country
\* alias nor a region alias, the result has city C, the region R names and the
\* country K names.
C4_CityRegionCountry ==
    pc = "parsed" /\ Len(Split(user_input, ",")) = 3 =>
        LET segs == Split(user_input, ",")
            C == Strip(segs[1])
            R == Normalised(segs[2])
            K == Normalised(segs[3])
        IN  /\ C # ""
            /\ CountryNamesOf(Normalised(C)) = {} /\ ~IsRegionAlias(Normalised(C))
            /\ RegionNamesOf(R) # {}
            /\ CountryNamesOf(K) # {}
            => /\ location.city = Some(C)
               /\ location.region \in {Some(n) : n \in RegionNamesOf(R)}
               /\ location.country \in {Some(n) : n \in CountryNamesOf(K)}

\* C4 witness: "Austin,TX, usa " was parsed to Austin / Texas / United States.
C4_Witness ==
    /\ pc = "parsed"
    /\ user_input = "Austin,TX, usa "
    /\ location.city = Some("Austin")
    /\ location.region = Some("Texas")
    /\ location.country = Some("United States")

\* name is a macro-region label: a label of _COUNTRY_MACROREGIONS or one of the
\* region-level aliases _build_region_aliases adds without a country.
IsMacroLabel(name) ==
    \/ Lower(name) \in MacroLabels
    \/ \E i \in DOMAIN MacroRegionAliases : MacroRegionAliases[i][1] = Lower(name)

\* C5, as stated: a macro-region label is never the region of a location that
\* parse_location_input returns.
C5_MacroRegionNeverRegion ==
    pc = "parsed" /\ location.region # None => ~IsMacroLabel(location.region[1])

\* C5, amended: a macro-region label is the region of a returned location only
\* when a comma-separated segment of the input is that label itself (up to
\* letter case and white space); it is never derived from other text.
C5_MacroRegionOnlyFromOwnSegment ==
    pc = "parsed" /\ location.region # None /\ IsMacroLabel(location.region[1]) =>
        \E seg \in Range(Split(user_input, ",")) :
            Normalised(seg) = Lower(location.region[1])

\* C5 witness: the segment "North America" became the region.
C5_Witness ==
    /\ pc = "parsed"
    /\ user_input = "North America,Canada"
    /\ location.region = Some("North America")
    /\ location.country = Some("Canada")

\* C6: every region name and every abbreviation listed in a per-country region
\* table, when looked up, resolves to the region and the country it is listed
\* under.
C6_ListedKeyResolvesToOwnEntry ==
    pc = "parsed" =>
        \A t \in DOMAIN RegionTables :
            \A e \in Range(RegionTables[t][1]) :
                user_input \in ({e[1], e[2]} \ {""}) =>
                    /\ location.region = Some(e[1])
                    /\ location.country = Some(RegionTables[t][2])

(***************************************************************************)
(* Properties of the matcher (checked under SpecMatch and SpecNext)        *)
(***************************************************************************)
\* C7: a window whose countries and regions are both empty matches every
\* location, also one with no city, region, country or postal code.
C7_EmptyWindowMatchesAll ==
    pc = "matched" /\ window.countries = <<>> /\ window.regions = <<>> => ret = TRUE

\* C7 witness: the empty window was matched against the location with no
\* field set.
C7_Witness ==
    /\ pc = "matched"
    /\ window.countries = <<>> /\ window.regions = <<>>
    /\ location = LocationQuery("", None, None, None, None)
    /\ ret = TRUE

\* C8: a window with no countries whose regions contain, in any letter case, a
\* macro-region label of the location's canonical country matches.
C8_MacroRegionMatches ==
    pc = "matched" /\ window.countries = <<>> =>
        \A i \in DOMAIN _COUNTRY_MACROREGIONS :
            LET c == _COUNTRY_MACROREGIONS[i][1]
                labels == _COUNTRY_MACROREGIONS[i][2]
            IN  /\ c \in CanonicalCountries
                /\ location.country = Some(c)
                /\ \E k \in DOMAIN window.regions : Lower(window.regions[k]) \in labels
                => ret = TRUE

\* C8 witness: regions <<"NORTH AMERICA">> matched a location that has only
\* the country United States.
C8_Witness ==
    /\ pc = "matched"
    /\ window = VisibilityWindow(<<>>, <<"NORTH AMERICA">>, "")
    /\ location = LocationQuery("", None, None, Some("United States"), None)
    /\ ret = TRUE

\* The smallest element of a non-empty set of integers
Least(S) == CHOOSE x \in S : \A y \in S : x <= y

\* The indices of the windows of visibility that match loc
MatchingIndices(visibility, loc) ==
    {k \in DOMAIN visibility : _window_matches_location(visibility[k], loc)}

\* C9: next_visible_event returns the first event in sequence order whose date
\* is not before the reference date and that has a matching window, so no
\* qualifying event is earlier; it returns None when there is no such event.
C9_FirstQualifyingEvent ==
    pc = "searched" =>
        LET reference_date == IF start_date = None THEN today ELSE start_date[1]
            Q == {i \in DOMAIN events :
                    /\ events[i].occurs_on >= reference_date
                    /\ MatchingIndices(events[i].visibility, location) # {}}
        IN  IF Q = {} THEN ret = None
            ELSE /\ ret = <<events[Least(Q)]>>
                 /\ \A j \in Q : ret[1].occurs_on <= events[j].occurs_on

\* C9 witness: a visible event before the reference date and a later event
\* that does not match were passed over, and an event on the reference date
\* itself was returned.
C9_Witness ==
    /\ pc = "searched"
    /\ start_date # None
    /\ Len(events) = 3
    /\ events[1].occurs_on < start_date[1]
    /\ MatchingIndices(events[1].visibility, location) # {}
    /\ events[2].occurs_on = start_date[1]
    /\ MatchingIndices(events[2].visibility, location) = {}
    /\ ret = <<events[3]>>
    /\ events[3].occurs_on = start_date[1]

\* C10: matching_window returns the first window of the event, in the event's
\* order, that matches, and None exactly when is_visible_from is false; so the
\* event next_visible_event returns has a window selected for the location.
C10_FirstMatchingWindow ==
    /\ pc = "searched" =>
          \A i \in DOMAIN events :
              LET e == events[i]
                  M == MatchingIndices(e.visibility, location)
                  chosen == matching_window(e, location)
              IN  /\ (chosen = None) <=> ~is_visible_from(e, location)
                  /\ chosen = IF M = {} THEN None ELSE <<e.visibility[Least(M)]>>
    /\ pc = "described" =>
          /\ selected # None
          /\ selected = <<ret[1].visibility[
                            Least(MatchingIndices(ret[1].visibility, location))]>>

\* C10 witness: for the event found, the window selected is not its first
\* window, which does not match.
C10_Witness ==
    /\ pc = "described"
    /\ selected # None
    /\ selected[1] # ret[1].visibility[1]
    /\ ~_window_matches_location(ret[1].visibility[1], location)

(***************************************************************************)
(* Properties of the registry (checked under SpecRegistry)                 *)
(***************************************************************************)
\* C11: normalize_country returns every canonical country name unchanged and
\* normalize_region every canonical region name, so normalising the result of
\* a normalisation once more changes nothing.
C11_CanonicalisationIdempotent ==
    /\ pc = "country" /\ user_input \in CanonicalCountries => ret = Some(user_input)
    /\ pc = "region" /\ user_input \in CanonicalRegionNames => ret = Some(user_input)
    /\ pc \in {"country twice", "region twice"} => selected = ret

\* C11 witness: the alias "uk" was normalised to United Kingdom and normalising
\* that again returned it unchanged.
C11_Witness ==
    /\ pc = "country twice"
    /\ user_input = "uk"
    /\ ret = Some("United Kingdom")
    /\ selected = Some("United Kingdom")


(***************************************************************************)
(* Further properties of parse_location_input (checked under SpecParse)    *)
(***************************************************************************)
\* C13: every Location parse returns, on the postal path and on the
\* comma-split path, carries as raw the input exactly as passed in, untrimmed.
C13_RawIsUntrimmedInput ==
    pc = "parsed" => location.raw = user_input

\* C13 witness: a padded ZIP code took the postal path; raw kept the padding
\* and the postal code did not.
C13_Witness ==
    /\ pc = "parsed"
    /\ user_input = " 78701 "
    /\ location.raw = " 78701 "
    /\ location.postal_code = Some("78701")

\* Every segment of the input was consumed as country or region by the scan
C14_AllConsumed(input) ==
    LET components == Components(Strip(input))
    IN  /\ components # <<>>
        /\ ScanComponents(components, Len(components),
               [city |-> None, region |-> None, country |-> None]).city = None

\* C14: in every Location parse returns the city is unset, or is non-empty
\* and differs, letter case ignored, from the returned region and from the
\* returned country; when every segment was consumed as country or region and
\* the leftmost segment equals the region, as in "Ontario, Canada", the city
\* is unset.
C14_CityDiffersFromRegionAndCountry ==
    pc = "parsed" =>
        /\ location.city # None =>
              /\ location.city[1] # ""
              /\ location.region # None =>
                     Lower(location.city[1]) # Lower(location.region[1])
              /\ location.country # None =>
                     Lower(location.city[1]) # Lower(location.country[1])
        /\ ~IsPostalShape(Strip(user_input))
              /\ C14_AllConsumed(user_input)
              /\ location.region # None
              /\ Lower(Components(Strip(user_input))[1]) = Lower(location.region[1])
           => location.city = None
        /\ user_input = "Ontario, Canada" =>
              location = LocationQuery(user_input, None, Some("Ontario"),
                                       Some("Canada"), None)

\* C14 witness: "Ontario, Canada" was parsed to region and country only.
C14_Witness ==
    /\ pc = "parsed"
    /\ user_input = "Ontario, Canada"
    /\ location.city = None
    /\ location.region = Some("Ontario")

\* The input has a comma-separated segment that is not empty when trimmed
HasNonEmptySegment(input) ==
    \E i \in 1..Len(input) : At(input, i) \notin (Whitespace \cup {","})

\* The field is set to a non-empty string
IsSet(field) == field # None /\ field[1] # ""

\* C17: for every input with a non-empty comma-separated segment parse returns
\* a Location with at least one of city, region, country, postal code set; a
\* Location with none of them set is returned only for an input without one.
C17_NonEmptySegmentGivesUsableLocation ==
    pc = "parsed" =>
        LET usable == \/ IsSet(location.city) \/ IsSet(location.region)
                      \/ IsSet(location.country) \/ IsSet(location.postal_code)
        IN  /\ HasNonEmptySegment(user_input) => usable
            /\ ~usable => Components(Strip(user_input)) = <<>>

\* C17 witness: an input whose only non-empty segment comes after an empty one
\* and names nothing the registry knows was returned with that segment as city.
C17_Witness ==
    /\ pc = "parsed"
    /\ user_input = " ,Old Town"
    /\ location.city = Some("Old Town")
    /\ location.region = None /\ location.country = None

(***************************************************************************)
(* Properties of the postal code resolver (checked under SpecPostal)       *)
(***************************************************************************)
\* The number written by the first three digits of a ZIP code
ZipPrefixValue(s) ==
    100 * DigitValue[At(s, 1)] + 10 * DigitValue[At(s, 2)] + DigitValue[At(s, 3)]

\* The indices of the ranges of the table whose inclusive bounds contain n
ContainingRanges(n) ==
    {i \in DOMAIN _ZIP_STATE_RANGES :
        _ZIP_STATE_RANGES[i][1] <= n /\ n <= _ZIP_STATE_RANGES[i][2]}

\* C12: for every 5-digit ZIP code (optionally followed by a hyphen and 4
\* digits) resolve returns (region, "United States") with the region of the
\* first range in table order whose inclusive bounds contain the 3-digit
\* prefix, at most one range containing it, and returns nothing when no range
\* contains the prefix; "78701" resolves to Texas.
C12_ZipResolvesByFirstRange ==
    pc = "resolved" /\ C3_ZipShape(user_input) =>
        LET containing == ContainingRanges(ZipPrefixValue(user_input))
        IN  /\ Cardinality(containing) <= 1
            /\ containing = {} => ret = None
            /\ containing # {} =>
                   ret = <<<<_ZIP_STATE_RANGES[Least(containing)][3], "United States">>>>
            /\ user_input = "78701" => ret = <<<<"Texas", "United States">>>>

\* A ZIP code whose prefix is the upper bound of its range, resolved
C12_Witness ==
    /\ pc = "resolved" /\ user_input = "79999-1234"
    /\ ret = <<<<"Texas", "United States">>>>


\* C20: every region the postal code resolver returns, for any ZIP prefix range
\* and any Canadian first letter, is a canonical region name listed in the
\* registry table of the country the resolver returns with it, and the
\* registry lookup of that name gives back the same name and country.
C20_ResolvedRegionInRegistry ==
    pc = "resolved" /\ ret # None =>
        /\ \E t \in DOMAIN RegionTables :
               /\ RegionTables[t][2] = ret[1][2]
               /\ \E e \in Range(RegionTables[t][1]) : e[1] = ret[1][1]
        /\ RegionGet(_normalise_token(ret[1][1])) = <<<<ret[1][1], Some(ret[1][2])>>>>


(***************************************************************************)
(* Further properties of the matcher (checked under SpecMatch)             *)
(***************************************************************************)
\* C19: every canonical country name of the country alias table has a
\* non-empty macro-region set, so the token set of a location whose country is
\* such a name contains at least one macro-region label.
C19_CanonicalCountryHasMacroRegion ==
    pc = "matched" /\ location.country # None
                   /\ location.country[1] \in CanonicalCountries =>
        /\ location.country[1] \in DOMAIN CountryMacroregionsDict
        /\ CountryMacroregionsDict[location.country[1]] # {}
        /\ tokens(location) \cap MacroLabels # {}


\* The lower-cased countries and regions a window lists
LoweredCountries(w) == {Lower(w.countries[k]) : k \in DOMAIN w.countries}

LoweredRegions(w) == {Lower(w.regions[k]) : k \in DOMAIN w.regions}

\* C15: the country is a gate: when the window lists countries, the location
\* has no country and no token of the location is one of the lower-cased
\* countries, the window does not match, also when the location's region or
\* tokens overlap the window's regions.
C15_CountryGateCloses ==
    pc = "matched" /\ window.countries # <<>> /\ location.country = None
                   /\ tokens(location) \cap LoweredCountries(window) = {}
        => ret = FALSE

\* C15 witness: a location with only the region Texas was rejected by a
\* window that lists Mexico as country and Texas as region.
C15_Witness ==
    /\ pc = "matched"
    /\ window = VisibilityWindow(<<"Mexico">>, <<"Texas">>, "")
    /\ location = LocationQuery("", None, Some("Texas"), None, None)
    /\ ret = FALSE

\* C16: when the window lists countries and regions and the location's
\* lower-cased country is one of the lower-cased countries while no token of
\* the location is one of the lower-cased regions, the window matches if the
\* location has no region and does not match if it has one (which then is
\* none of the window's regions).
C16_CountryMatchSufficesWithoutRegion ==
    pc = "matched" /\ window.countries # <<>> /\ window.regions # <<>>
                   /\ location.country # None
                   /\ Lower(location.country[1]) \in LoweredCountries(window)
                   /\ tokens(location) \cap LoweredRegions(window) = {}
        => /\ location.region = None => ret = TRUE
           /\ location.region # None
                  /\ Lower(location.region[1]) \notin LoweredRegions(window)
              => ret = FALSE

\* C16 witness: a location with only the country Mexico matched a window
\* that lists Mexico as country and Texas as region.
C16_Witness ==
    /\ pc = "matched"
    /\ window = VisibilityWindow(<<"Mexico">>, <<"Texas">>, "")
    /\ location = LocationQuery("", None, None, Some("Mexico"), None)
    /\ ret = TRUE

\* The aliases of the canonical country c in the country alias table
AliasesOf(c) ==
    {_COUNTRY_CANONICAL[i][1] : i \in {j \in DOMAIN _COUNTRY_CANONICAL :
                                          _COUNTRY_CANONICAL[j][2] = c}}

\* C18: a location whose country is the canonical country c never matches a
\* window whose non-empty countries contain, in any letter case, neither c nor
\* an alias of c: city and region words do not open the country gate for
\* another country.
C18_OtherCountryNeverMatches ==
    pc = "matched" /\ location.country # None
                   /\ location.country[1] \in CanonicalCountries
                   /\ window.countries # <<>>
                   /\ LoweredCountries(window)
                        \cap ({Lower(location.country[1])}
                              \cup AliasesOf(location.country[1])) = {}
        => ret = FALSE

=============================================================================
